---- MODULE Spec2Model ----
(***************************************************************************)
(* Piecewise polynomials on the real line (sage.geometry.piecewise and     *)
(* sage.geometry.piecewise_polynomial): construction, evaluation, the      *)
(* scan-line partitioner finest_partitions and the algebraic combinators   *)
(* built on it.                                                            *)
(*                                                                         *)
(* The real line is represented by integers.  Finite interval endpoints    *)
(* are the even numbers 2, 4, ..., 2*NumPts; 0 stands for -oo and          *)
(* 2*NumPts+2 for +oo.  Every integer in 1..2*NumPts+1 is a point at which *)
(* functions are evaluated: an even one is an endpoint itself, an odd one  *)
(* is a point strictly between two neighbouring endpoints (or beyond the   *)
(* outermost ones).  Two sets with endpoints among the even numbers are    *)
(* equal exactly when they contain the same of these points.               *)
(***************************************************************************)
EXTENDS Integers, Sequences, FiniteSets, TLC

VARIABLES
    op,                   \* the operation performed last ("init" before any)
    real_set_collection,  \* the RealSets handed to finest_partitions
    partitions,           \* the pairs finest_partitions yielded
    function_pieces,      \* the constructor's argument: a list of (domain, func)
    collection,           \* the PiecewiseFunction objects that exist (operands)
    union,                \* the union argument of a general combine
    call,                 \* the arguments of __call__: [args, kwds]
    result                \* what the last operation returned or raised

vars == <<op, real_set_collection, partitions, function_pieces, collection,
          union, call, result>>

----------------------------------------------------------------------------
(* Bounds of the model *)

\* the finite endpoint values of intervals are 2, 4, ..., 2*NumPts
NumPts == 2

\* the number of RealSets handed to finest_partitions, and of functions
\* handed to a combine
MaxSets == 2

\* the number of component intervals in the arguments of one operation
MaxIntervals == 3

\* the number of (domain, func) pairs handed to the constructor
MaxPieces == 2

----------------------------------------------------------------------------
(* The real line, sage.rings.infinity and sage.sets.real_set *)

NegInf == 0

PosInf == 2 * NumPts + 2

EndPts == { 2 * k : k \in 1..NumPts }

Points == 1 .. (2 * NumPts + 1)

None == <<>>

Some(v) == <<v>>

int(b) == IF b THEN 1 ELSE 0

InternalRealInterval(lower, lower_closed, upper, upper_closed) ==
    [lower |-> lower, lower_closed |-> lower_closed,
     upper |-> upper, upper_closed |-> upper_closed]

is_point(interval) ==
    /\ interval.lower = interval.upper
    /\ interval.lower_closed
    /\ interval.upper_closed

\* x in interval; an interval lower = upper that is not closed at both ends
\* is empty
IntervalContains(interval, x) ==
    \/ interval.lower < x /\ x < interval.upper
    \/ /\ interval.lower < interval.upper
       /\ \/ x = interval.lower /\ interval.lower_closed
          \/ x = interval.upper /\ interval.upper_closed
    \/ x = interval.lower /\ is_point(interval)

\* x in realset
Contains(realset, x) ==
    \E k \in DOMAIN realset : IntervalContains(realset[k], x)

PointsOf(realset) == { x \in Points : Contains(realset, x) }

\* The interval holding exactly the points a..b: an odd end is an open end
\* at the next endpoint
IntervalOfRun(a, b) ==
    InternalRealInterval(
        IF a % 2 = 0 THEN a ELSE a - 1, a % 2 = 0,
        IF b % 2 = 0 THEN b ELSE b + 1, b % 2 = 0)

\* The maximal runs of consecutive points of S from x on, in order; start is
\* the first point of the run that holds x - 1 (0: x - 1 is not in S)
RECURSIVE SortedIntervals(_, _, _)
SortedIntervals(S, x, start) ==
    IF x \in S
    THEN SortedIntervals(S, x + 1, IF start = 0 THEN x ELSE start)
    ELSE (IF start = 0 THEN <<>> ELSE <<IntervalOfRun(start, x - 1)>>)
         \o (IF x >= PosInf THEN <<>> ELSE SortedIntervals(S, x + 1, 0))

\* A RealSet is kept normalized: its intervals sorted, disjoint and not
\* touching.  This is the normalized RealSet holding exactly the points S.
RealSet(S) == SortedIntervals(S, 1, 0)

RealSets == { RealSet(S) : S \in SUBSET Points }

\* RealSet(interval)
RealSetOfInterval(interval) ==
    RealSet({ x \in Points : IntervalContains(interval, x) })

is_empty(realset) == realset = <<>>

union_of_realsets(realsets) ==
    RealSet(UNION { PointsOf(realsets[k]) : k \in DOMAIN realsets })

are_pairwise_disjoint(realsets) ==
    \A i, j \in DOMAIN realsets :
        i < j => PointsOf(realsets[i]) \cap PointsOf(realsets[j]) = {}

is_subset(a, b) == PointsOf(a) \subseteq PointsOf(b)

----------------------------------------------------------------------------
(* The scan line: _iterator, heapq.merge and finest_partitions *)

\* Python's order on tuples of numbers of one length
TupleLess(a, b) ==
    \E k \in DOMAIN a :
        /\ a[k] < b[k]
        /\ \A j \in 1..(k - 1) : a[j] = b[j]

RECURSIVE _iterator(_, _)
_iterator(realset, i) ==
    IF realset = <<>> THEN <<>>
    ELSE LET interval == Head(realset)
         IN  << <<interval.lower, 1 - int(interval.lower_closed), 1, i>>,
                <<interval.upper, int(interval.upper_closed), -1, i>> >>
             \o _iterator(Tail(realset), i)

\* heapq.merge: repeatedly the least head of the streams, the earlier stream
\* first among equal heads
RECURSIVE merge(_)
merge(streams) ==
    LET live == { k \in DOMAIN streams : streams[k] # <<>> }
    IN  IF live = {} THEN <<>>
        ELSE LET k == CHOOSE k \in live : \A j \in live :
                        \/ j = k
                        \/ TupleLess(Head(streams[k]), Head(streams[j]))
                        \/ Head(streams[k]) = Head(streams[j]) /\ k < j
             IN  <<Head(streams[k])>>
                 \o merge([streams EXCEPT ![k] = Tail(streams[k])])

\* The state of the sweep before the first event
SweepInit(n) ==
    [indicator |-> [k \in 1..n |-> 0], indicator_sum |-> 0,
     prev_event |-> None, yielded |-> <<>>]

\* SweepStep that keeps the previous boundary when the running sum drops to 0
SweepStepNoReset(st, ev) ==
    LET emit == /\ st.prev_event # None
                /\ TupleLess(st.prev_event, <<ev[1], ev[2], ev[3]>>)
    IN  [indicator |-> [st.indicator EXCEPT ![ev[4] + 1] = @ + ev[3]],
         indicator_sum |-> st.indicator_sum + ev[3],
         prev_event |-> <<ev[1], ev[2], 1>>,
         yielded |->
            IF emit
            THEN << [real_set |-> RealSetOfInterval(InternalRealInterval(
                                       st.prev_event[1], st.prev_event[2] = 0,
                                       ev[1], ev[2] = 1)),
                     inds |-> st.indicator] >>
            ELSE <<>>]

\* SweepStep that tags the interval with the counters after the update
SweepStepTagAfter(st, ev) ==
    LET emit == /\ st.prev_event # None
                /\ TupleLess(st.prev_event, <<ev[1], ev[2], ev[3]>>)
        indicator == [st.indicator EXCEPT ![ev[4] + 1] = @ + ev[3]]
    IN  [indicator |-> indicator,
         indicator_sum |-> st.indicator_sum + ev[3],
         prev_event |-> IF st.indicator_sum + ev[3] = 0 THEN None
                        ELSE <<ev[1], ev[2], 1>>,
         yielded |->
            IF emit
            THEN << [real_set |-> RealSetOfInterval(InternalRealInterval(
                                       st.prev_event[1], st.prev_event[2] = 0,
                                       ev[1], ev[2] = 1)),
                     inds |-> indicator] >>
            ELSE <<>>]

\* SweepStep that compares the events by their points x alone
SweepStepByPoint(st, ev) ==
    LET emit == /\ st.prev_event # None
                /\ st.prev_event[1] < ev[1]
    IN  [indicator |-> [st.indicator EXCEPT ![ev[4] + 1] = @ + ev[3]],
         indicator_sum |-> st.indicator_sum + ev[3],
         prev_event |-> IF st.indicator_sum + ev[3] = 0 THEN None
                        ELSE <<ev[1], ev[2], 1>>,
         yielded |->
            IF emit
            THEN << [real_set |-> RealSetOfInterval(InternalRealInterval(
                                       st.prev_event[1], st.prev_event[2] = 0,
                                       ev[1], ev[2] = 1)),
                     inds |-> st.indicator] >>
            ELSE <<>>]

\* SweepStep that marks every emitted interval for all the inputs
SweepStepTagAll(st, ev) ==
    LET emit == /\ st.prev_event # None
                /\ TupleLess(st.prev_event, <<ev[1], ev[2], ev[3]>>)
        sum == st.indicator_sum + ev[3]
    IN  [indicator |-> [st.indicator EXCEPT ![ev[4] + 1] = @ + ev[3]],
         indicator_sum |-> sum,
         prev_event |-> IF sum = 0 THEN None ELSE <<ev[1], ev[2], 1>>,
         yielded |->
            IF emit
            THEN << [real_set |-> RealSetOfInterval(InternalRealInterval(
                                       st.prev_event[1], st.prev_event[2] = 0,
                                       ev[1], ev[2] = 1)),
                     inds |-> [k \in DOMAIN st.indicator |-> 1]] >>
            ELSE <<>>]

\* SweepStep that yields whenever a boundary is pending, without comparing
\* the event with it
SweepStepUncompared(st, ev) ==
    LET x == ev[1]
        epsilon == ev[2]
        delta == ev[3]
        set_id == ev[4] + 1
        emit == st.prev_event # None
        sum == st.indicator_sum + delta
    IN  [indicator |-> [st.indicator EXCEPT ![set_id] = @ + delta],
         indicator_sum |-> sum,
         prev_event |-> IF sum = 0 THEN None ELSE <<x, epsilon, 1>>,
         yielded |->
            IF emit
            THEN << [real_set |-> RealSetOfInterval(InternalRealInterval(
                                       st.prev_event[1], st.prev_event[2] = 0,
                                       x, epsilon = 1)),
                     inds |-> st.indicator] >>
            ELSE <<>>]

\* The body of the loop over the merged events, for one event: yielded is
\* what this iteration yields (nothing, or one (RealSet, indicator) pair)
SweepStep(st, ev) ==
    LET x == ev[1]
        epsilon == ev[2]
        delta == ev[3]
        set_id == ev[4] + 1
        emit == /\ st.prev_event # None
                /\ TupleLess(st.prev_event, <<x, epsilon, delta>>)
        sum == st.indicator_sum + delta
    IN  [indicator |-> [st.indicator EXCEPT ![set_id] = @ + delta],
         indicator_sum |-> sum,
         prev_event |-> IF sum = 0 THEN None ELSE <<x, epsilon, 1>>,
         yielded |->
            IF emit
            THEN << [real_set |-> RealSetOfInterval(InternalRealInterval(
                                       st.prev_event[1], st.prev_event[2] = 0,
                                       x, epsilon = 1)),
                     inds |-> st.indicator] >>
            ELSE <<>>]

RECURSIVE Sweep(_, _)
Sweep(st, scan) ==
    IF scan = <<>> THEN <<>>
    ELSE LET nx == SweepStep(st, Head(scan))
         IN  nx.yielded \o Sweep(nx, Tail(scan))

finest_partitions(realsets) ==
    LET scan == merge([k \in DOMAIN realsets |-> _iterator(realsets[k], k - 1)])
    IN  Sweep(SweepInit(Len(realsets)), scan)

----------------------------------------------------------------------------
(* Polynomials in one variable t with integer coefficients: the sequence   *)
(* of coefficients of 1, t, t^2, ... without trailing zeros.               *)

RECURSIVE PolyNorm(_)
PolyNorm(c) ==
    IF c = <<>> THEN <<>>
    ELSE IF c[Len(c)] = 0 THEN PolyNorm(SubSeq(c, 1, Len(c) - 1))
    ELSE c

Coef(f, k) == IF k <= Len(f) THEN f[k] ELSE 0

Const(value) == PolyNorm(<<value>>)

PolyAdd(f, g) ==
    PolyNorm([k \in 1..(IF Len(f) >= Len(g) THEN Len(f) ELSE Len(g)) |->
                 Coef(f, k) + Coef(g, k)])

RECURSIVE Convolve(_, _, _, _)
Convolve(f, g, k, i) ==
    IF i > k THEN 0
    ELSE Coef(f, i) * Coef(g, k - i + 1) + Convolve(f, g, k, i + 1)

PolyMul(f, g) ==
    IF f = <<>> \/ g = <<>> THEN <<>>
    ELSE PolyNorm([k \in 1..(Len(f) + Len(g) - 1) |-> Convolve(f, g, k, 1)])

PolyNeg(f) == [k \in 1..Len(f) |-> 0 - f[k]]

\* func(x)
RECURSIVE PolyEval(_, _)
PolyEval(f, x) ==
    IF f = <<>> THEN 0 ELSE Head(f) + x * PolyEval(Tail(f), x)

----------------------------------------------------------------------------
(* PiecewiseFunction: construction and evaluation *)

ValueError == [kind |-> "ValueError"]

ReturnedNone == [kind |-> "None"]

Returned(v) == [kind |-> "value", val |-> v]

\* the position of func in func_list (the dictionary p of __init__ maps each
\* function of func_list to its position), 0 when it is not a key
IndexOf(func_list, func) ==
    IF \E k \in DOMAIN func_list : func_list[k] = func
    THEN CHOOSE k \in DOMAIN func_list : func_list[k] = func
    ELSE 0

\* ScanDomain that keeps func for the single points
RECURSIVE ScanDomainKeepingFunc(_, _, _)
ScanDomainKeepingFunc(st, func, domain) ==
    IF domain = <<>> THEN st
    ELSE LET interval == Head(domain)
         IN  IF is_point(interval)
             THEN LET i == IndexOf(st.func_list, func)
                  IN  ScanDomainKeepingFunc(
                        IF i # 0
                        THEN [st EXCEPT !.domain_list[i] =
                                union_of_realsets(
                                    <<@, RealSetOfInterval(interval)>>)]
                        ELSE [st EXCEPT
                                !.domain_list =
                                    Append(@, RealSetOfInterval(interval)),
                                !.func_list = Append(@, func)],
                        func, Tail(domain))
             ELSE ScanDomainKeepingFunc(
                        [st EXCEPT !.non_point = Append(@, interval)],
                        func, Tail(domain))

\* The loop over the intervals of one piece's domain: a single point is
\* filed under the constant function of its value, the others are collected
RECURSIVE ScanDomain(_, _, _)
ScanDomain(st, func, domain) ==
    IF domain = <<>> THEN st
    ELSE LET interval == Head(domain)
         IN  IF is_point(interval)
             THEN LET value == PolyEval(func, interval.lower)
                      func_ == Const(value)
                      i == IndexOf(st.func_list, func_)
                  IN  ScanDomain(
                        IF i # 0
                        THEN [st EXCEPT !.domain_list[i] =
                                union_of_realsets(
                                    <<@, RealSetOfInterval(interval)>>)]
                        ELSE [st EXCEPT
                                !.domain_list =
                                    Append(@, RealSetOfInterval(interval)),
                                !.func_list = Append(@, func_)],
                        func, Tail(domain))
             ELSE ScanDomain([st EXCEPT !.non_point = Append(@, interval)],
                             func, Tail(domain))

\* AddPiece that replaces the domain of a function found again by the new
\* intervals
AddPieceReplacing(st, piece) ==
    LET domain == piece[1]
        func == piece[2]
    IN  IF is_empty(domain) THEN st
        ELSE LET s1 == ScanDomain(
                          [st EXCEPT !.var = IF @ = "None" THEN "t" ELSE @,
                                     !.non_point = <<>>],
                          func, domain)
                 i == IndexOf(s1.func_list, func)
                 non_point == [k \in DOMAIN s1.non_point |->
                                 RealSetOfInterval(s1.non_point[k])]
             IN  IF s1.non_point = <<>> THEN s1
                 ELSE IF i # 0
                 THEN [s1 EXCEPT !.domain_list[i] = union_of_realsets(non_point)]
                 ELSE [s1 EXCEPT
                         !.domain_list = Append(@, union_of_realsets(non_point)),
                         !.func_list = Append(@, func)]

\* The body of the loop over function_pieces, for one (domain, func)
AddPiece(st, piece) ==
    LET domain == piece[1]
        func == piece[2]
    IN  IF is_empty(domain) THEN st
        ELSE LET s1 == ScanDomain(
                          [st EXCEPT !.var = IF @ = "None" THEN "t" ELSE @,
                                     !.non_point = <<>>],
                          func, domain)
                 i == IndexOf(s1.func_list, func)
                 non_point == [k \in DOMAIN s1.non_point |->
                                 RealSetOfInterval(s1.non_point[k])]
             IN  IF s1.non_point = <<>> THEN s1
                 ELSE IF i # 0
                 THEN [s1 EXCEPT !.domain_list[i] =
                         union_of_realsets(<<@>> \o non_point)]
                 ELSE [s1 EXCEPT
                         !.domain_list = Append(@, union_of_realsets(non_point)),
                         !.func_list = Append(@, func)]

RECURSIVE Coalesce(_, _)
Coalesce(st, pieces) ==
    IF pieces = <<>> THEN st
    ELSE Coalesce(AddPiece(st, Head(pieces)), Tail(pieces))

\* DisjointCheck left out
DisjointCheckSkipped(domain_list) == TRUE

\* The disjointness test that ends the constructor
DisjointCheck(domain_list) == are_pairwise_disjoint(domain_list)

\* PiecewiseFunction(function_pieces): the object, or the ValueError raised
__init__(pieces) ==
    LET st == Coalesce([domain_list |-> <<>>, func_list |-> <<>>,
                        var |-> "None", non_point |-> <<>>], pieces)
    IN  IF ~DisjointCheck(st.domain_list) THEN ValueError
        ELSE [kind |-> "PiecewiseFunction",
              domain_list |-> st.domain_list,
              func_list |-> st.func_list,
              var |-> st.var,
              support |-> union_of_realsets(st.domain_list),
              _end_points |-> None,
              _end_points_list |-> None]

\* Lookup that raises when no piece contains val
RECURSIVE LookupRaising(_, _, _)
LookupRaising(self, k, val) ==
    IF k > Len(self.domain_list) THEN ValueError
    ELSE IF Contains(self.domain_list[k], val)
    THEN Returned(PolyEval(self.func_list[k], val))
    ELSE LookupRaising(self, k + 1, val)

\* The scan over the pieces that ends __call__
RECURSIVE Lookup(_, _, _)
Lookup(self, k, val) ==
    IF k > Len(self.domain_list) THEN ReturnedNone
    ELSE IF Contains(self.domain_list[k], val)
    THEN Returned(PolyEval(self.func_list[k], val))
    ELSE Lookup(self, k + 1, val)

\* __call__ that takes its one positional argument whatever the keywords
__call__IgnoringKeywords(self, args, kwds) ==
    IF Len(args) = 1
    THEN Lookup(self, 1, args[1])
    ELSE IF Len(args) = 0
    THEN IF self.var \in DOMAIN kwds
         THEN Lookup(self, 1, kwds[self.var])
         ELSE ValueError
    ELSE ValueError

\* self(*args, **kwds): kwds is a function from the names given to values
__call__(self, args, kwds) ==
    IF Len(args) = 1
    THEN IF Cardinality(DOMAIN kwds) > 0 THEN ValueError
         ELSE Lookup(self, 1, args[1])
    ELSE IF Len(args) = 0
    THEN IF self.var \in DOMAIN kwds
         THEN Lookup(self, 1, kwds[self.var])
         ELSE ValueError
    ELSE ValueError

----------------------------------------------------------------------------
(* The algebraic combinators of sage.geometry.piecewise *)

RECURSIVE sum(_)
sum(inds) == IF inds = <<>> THEN 0 ELSE Head(inds) + sum(Tail(inds))

\* self.func_list[i] if i < n_self else other.func_list[i - n_self]
FuncAt(self, other, i) ==
    LET n_self == Len(self.domain_list)
    IN  IF i < n_self THEN self.func_list[i + 1]
        ELSE other.func_list[i - n_self + 1]

\* new_pair[1] after the loop over enumerate(inds), from index i on
\* AddCovering that adds the functions of all the pieces, covering or not
RECURSIVE AddCoveringAll(_, _, _, _, _)
AddCoveringAll(acc, inds, i, self, other) ==
    IF i >= Len(inds) THEN acc
    ELSE AddCoveringAll(PolyAdd(acc, FuncAt(self, other, i)),
                        inds, i + 1, self, other)

RECURSIVE AddCovering(_, _, _, _, _)
AddCovering(acc, inds, i, self, other) ==
    IF i >= Len(inds) THEN acc
    ELSE AddCovering(IF inds[i + 1] > 0
                     THEN PolyAdd(acc, FuncAt(self, other, i)) ELSE acc,
                     inds, i + 1, self, other)

\* AddPairs that skips the intervals only one operand covers, whatever union
RECURSIVE AddPairsSkipping(_, _, _, _)
AddPairsSkipping(p, self, other, union_) ==
    IF p = <<>> THEN <<>>
    ELSE (IF sum(Head(p).inds) < 2 THEN <<>>
          ELSE << <<Head(p).real_set,
                    AddCovering(Const(0), Head(p).inds, 0, self, other)>> >>)
         \o AddPairsSkipping(Tail(p), self, other, union_)

RECURSIVE AddPairs(_, _, _, _)
AddPairs(p, self, other, union_) ==
    IF p = <<>> THEN <<>>
    ELSE (IF ~union_ /\ sum(Head(p).inds) < 2 THEN <<>>
          ELSE << <<Head(p).real_set,
                    AddCovering(Const(0), Head(p).inds, 0, self, other)>> >>)
         \o AddPairs(Tail(p), self, other, union_)

piecewise_add_general(self, other, union_) ==
    __init__(AddPairs(finest_partitions(self.domain_list \o other.domain_list),
                      self, other, union_))

piecewise_add(self, other) ==
    IF self.support # other.support THEN ValueError
    ELSE piecewise_add_general(self, other, TRUE)

RECURSIVE MulCovering(_, _, _, _, _)
MulCovering(acc, inds, i, self, other) ==
    IF i >= Len(inds) THEN acc
    ELSE MulCovering(IF inds[i + 1] > 0
                     THEN PolyMul(acc, FuncAt(self, other, i)) ELSE acc,
                     inds, i + 1, self, other)

RECURSIVE MulPairs(_, _, _, _)
MulPairs(p, self, other, union_) ==
    IF p = <<>> THEN <<>>
    ELSE (IF ~union_ /\ sum(Head(p).inds) < 2 THEN <<>>
          ELSE << <<Head(p).real_set,
                    MulCovering(Const(1), Head(p).inds, 0, self, other)>> >>)
         \o MulPairs(Tail(p), self, other, union_)

piecewise_mul_general(self, other, union_) ==
    __init__(MulPairs(finest_partitions(self.domain_list \o other.domain_list),
                      self, other, union_))

piecewise_mul(self, other) ==
    IF self.support # other.support THEN ValueError
    ELSE piecewise_mul_general(self, other, TRUE)

AttributeError == [kind |-> "AttributeError"]

\* a number as an operand: a Python int or a Sage Integer, which has no
\* attribute var
Integer(n) == [kind |-> "Integer", val |-> n]

\* self + other: var is "None" for a function without pieces; other.var is
\* read before the type of other is looked at
__add__(self, other) ==
    IF other.kind = "Integer" THEN AttributeError
    ELSE IF self.var # other.var THEN ReturnedNone
    ELSE IF other.kind = self.kind THEN piecewise_add(self, other)
    ELSE __init__([k \in DOMAIN self.func_list |->
                    <<self.domain_list[k], PolyAdd(self.func_list[k], Const(other.val))>>])

\* self * other
__mul__(self, other) ==
    IF other.kind = "Integer" THEN AttributeError
    ELSE IF self.var # other.var THEN ReturnedNone
    ELSE IF other.kind = self.kind THEN piecewise_mul(self, other)
    ELSE __init__([k \in DOMAIN self.func_list |->
                    <<self.domain_list[k], PolyMul(self.func_list[k], Const(other.val))>>])

\* realset_cut: 0 and the running totals of the numbers of pieces
RECURSIVE realset_cut(_)
realset_cut(piecewise_collection) ==
    IF piecewise_collection = <<>> THEN <<0>>
    ELSE LET cut == realset_cut(SubSeq(piecewise_collection, 1,
                                       Len(piecewise_collection) - 1))
         IN  Append(cut, Len(piecewise_collection[Len(piecewise_collection)]
                                 .func_list) + cut[Len(cut)])

\* bisect.bisect_right(a, x) on a sorted list a
bisect_right(a, x) == Cardinality({ k \in DOMAIN a : a[k] <= x })

\* the (realset_id, func_id) of the i-th domain, all counted from 0
get_realset_func_id(cut, i) ==
    LET realset_id == bisect_right(cut, i) - 1
    IN  <<realset_id, i - cut[realset_id + 1]>>

\* the domains of all the pieces of all the functions, in order
RECURSIVE AllDomains(_)
AllDomains(piecewise_collection) ==
    IF piecewise_collection = <<>> THEN <<>>
    ELSE Head(piecewise_collection).domain_list
         \o AllDomains(Tail(piecewise_collection))

RECURSIVE SumCovering(_, _, _, _, _)
SumCovering(acc, inds, i, piecewise_collection, cut) ==
    IF i >= Len(inds) THEN acc
    ELSE LET id == get_realset_func_id(cut, i)
         IN  SumCovering(
                IF inds[i + 1] > 0
                THEN PolyAdd(acc, piecewise_collection[id[1] + 1]
                                      .func_list[id[2] + 1])
                ELSE acc,
                inds, i + 1, piecewise_collection, cut)

\* SumPairs that asks for two covering pieces instead of one per function
RECURSIVE SumPairsOfTwo(_, _, _, _)
SumPairsOfTwo(p, piecewise_collection, union_, cut) ==
    IF p = <<>> THEN <<>>
    ELSE (IF ~union_ /\ sum(Head(p).inds) < 2
          THEN <<>>
          ELSE << <<Head(p).real_set,
                    SumCovering(Const(0), Head(p).inds, 0,
                                piecewise_collection, cut)>> >>)
         \o SumPairsOfTwo(Tail(p), piecewise_collection, union_, cut)

RECURSIVE SumPairs(_, _, _, _)
SumPairs(p, piecewise_collection, union_, cut) ==
    IF p = <<>> THEN <<>>
    ELSE (IF ~union_ /\ sum(Head(p).inds) < Len(cut) - 1
          THEN <<>>
          ELSE << <<Head(p).real_set,
                    SumCovering(Const(0), Head(p).inds, 0,
                                piecewise_collection, cut)>> >>)
         \o SumPairs(Tail(p), piecewise_collection, union_, cut)

piecewise_sum_general(piecewise_collection, union_) ==
    __init__(SumPairs(finest_partitions(AllDomains(piecewise_collection)),
                      piecewise_collection, union_,
                      realset_cut(piecewise_collection)))

----------------------------------------------------------------------------
(* The N-ary combinators of sage.geometry.piecewise_polynomial, which carry *)
(* their own copy of the sweep                                              *)

\* realset_info: the (i, j) of every piece, counted from 0
RECURSIVE realset_info(_, _)
realset_info(PiecewisePolynomial_collection, i) ==
    IF i >= Len(PiecewisePolynomial_collection) THEN <<>>
    ELSE [j \in 1..Len(PiecewisePolynomial_collection[i + 1].func_list) |->
            <<i, j - 1>>]
         \o realset_info(PiecewisePolynomial_collection, i + 1)

\* new_pair[1] after the loop over enumerate(inds), from index i on; mul
\* tells PiecewisePolynomial_mul (*=) from PiecewisePolynomial_add (+=)
RECURSIVE Accumulate(_, _, _, _, _, _)
Accumulate(acc, inds, i, PiecewisePolynomial_collection, info, mul) ==
    IF i >= Len(inds) THEN acc
    ELSE LET id == info[i + 1]
             func == PiecewisePolynomial_collection[id[1] + 1]
                         .func_list[id[2] + 1]
         IN  Accumulate(
                IF inds[i + 1] > 0
                THEN (IF mul THEN PolyMul(acc, func) ELSE PolyAdd(acc, func))
                ELSE acc,
                inds, i + 1, PiecewisePolynomial_collection, info, mul)

\* PolynomialStep that reads the counters after the update of the event
PolynomialStepTagAfter(st, ev, PiecewisePolynomial_collection, info, union_, mul) ==
    LET x == ev[1]
        epsilon == ev[2]
        delta == ev[3]
        set_id == ev[4] + 1
        emit == /\ st.prev_event # None
                /\ TupleLess(st.prev_event, <<x, epsilon, delta>>)
        inds == [st.indicator EXCEPT ![set_id] = @ + delta]
        short == sum(inds) < Len(PiecewisePolynomial_collection)
        realset == RealSetOfInterval(InternalRealInterval(
                       st.prev_event[1], st.prev_event[2] = 0, x, epsilon = 1))
        execute == ~(short /\ union_ = <<FALSE>>)
        indicator_sum == st.indicator_sum + delta
    IN  IF emit /\ short /\ union_ = None
        THEN [st EXCEPT !.raised = TRUE]
        ELSE [indicator |-> [st.indicator EXCEPT ![set_id] = @ + delta],
              indicator_sum |-> indicator_sum,
              prev_event |-> IF indicator_sum = 0 THEN None
                             ELSE <<x, epsilon, 1>>,
              result_pairs |->
                 IF emit /\ execute
                 THEN Append(st.result_pairs,
                             <<realset,
                               Accumulate(Const(IF mul THEN 1 ELSE 0), inds, 0,
                                          PiecewisePolynomial_collection,
                                          info, mul)>>)
                 ELSE st.result_pairs,
              raised |-> FALSE]

\* The body of the loop over the merged events, for one event.  union_ is
\* None, <<TRUE>> or <<FALSE>>.
PolynomialStep(st, ev, PiecewisePolynomial_collection, info, union_, mul) ==
    LET x == ev[1]
        epsilon == ev[2]
        delta == ev[3]
        set_id == ev[4] + 1
        emit == /\ st.prev_event # None
                /\ TupleLess(st.prev_event, <<x, epsilon, delta>>)
        inds == st.indicator
        short == sum(inds) < Len(PiecewisePolynomial_collection)
        realset == RealSetOfInterval(InternalRealInterval(
                       st.prev_event[1], st.prev_event[2] = 0, x, epsilon = 1))
        execute == ~(short /\ union_ = <<FALSE>>)
        indicator_sum == st.indicator_sum + delta
    IN  IF emit /\ short /\ union_ = None
        THEN [st EXCEPT !.raised = TRUE]
        ELSE [indicator |-> [st.indicator EXCEPT ![set_id] = @ + delta],
              indicator_sum |-> indicator_sum,
              prev_event |-> IF indicator_sum = 0 THEN None
                             ELSE <<x, epsilon, 1>>,
              result_pairs |->
                 IF emit /\ execute
                 THEN Append(st.result_pairs,
                             <<realset,
                               Accumulate(Const(IF mul THEN 1 ELSE 0), inds, 0,
                                          PiecewisePolynomial_collection,
                                          info, mul)>>)
                 ELSE st.result_pairs,
              raised |-> FALSE]

RECURSIVE PolynomialSweep(_, _, _, _, _, _)
PolynomialSweep(st, scan, PiecewisePolynomial_collection, info, union_, mul) ==
    IF scan = <<>> \/ st.raised THEN st
    ELSE PolynomialSweep(
            PolynomialStep(st, Head(scan), PiecewisePolynomial_collection,
                           info, union_, mul),
            Tail(scan), PiecewisePolynomial_collection, info, union_, mul)

\* The state in which the loop over the merged events ends
PolynomialScan(PiecewisePolynomial_collection, union_, mul) ==
    LET domains == AllDomains(PiecewisePolynomial_collection)
        scan == merge([k \in DOMAIN domains |-> _iterator(domains[k], k - 1)])
    IN  PolynomialSweep(
            [indicator |-> [k \in DOMAIN domains |-> 0],
             indicator_sum |-> 0, prev_event |-> None,
             result_pairs |-> <<>>, raised |-> FALSE],
            scan, PiecewisePolynomial_collection,
            realset_info(PiecewisePolynomial_collection, 0), union_, mul)

PolynomialCombine(PiecewisePolynomial_collection, union_, mul) ==
    LET end == PolynomialScan(PiecewisePolynomial_collection, union_, mul)
    IN  IF end.raised THEN ValueError ELSE __init__(end.result_pairs)

PiecewisePolynomial_add(PiecewisePolynomial_collection, union_) ==
    PolynomialCombine(PiecewisePolynomial_collection, union_, FALSE)

PiecewisePolynomial_mul(PiecewisePolynomial_collection, union_) ==
    PolynomialCombine(PiecewisePolynomial_collection, union_, TRUE)

\* self + other for another PiecewiseFunction_polynomial other
polynomial__add__(self, other) ==
    IF self.var # other.var THEN ReturnedNone
    ELSE PiecewisePolynomial_add(<<self, other>>, None)

\* self * other for another PiecewiseFunction_polynomial other
polynomial__mul__(self, other) ==
    IF self.var # other.var THEN ReturnedNone
    ELSE PiecewisePolynomial_mul(<<self, other>>, None)

----------------------------------------------------------------------------
(* Negation, subtraction and equality of PiecewiseFunction *)

\* __neg__ returning self unchanged
__neg__Identity(self) == self

\* -self
__neg__(self) ==
    __init__([k \in DOMAIN self.func_list |->
                    <<self.domain_list[k], PolyNeg(self.func_list[k])>>])

\* other - self in place of self - other
__sub__Swapped(self, other) == __add__(other, __neg__(self))

\* self - other
__sub__(self, other) == __add__(self, __neg__(other))

\* __eq__ that subtracts without comparing the supports and the variables
__eq__Unguarded(self, other) ==
    LET difference == __sub__(self, other)
    IN  IF difference.kind # "PiecewiseFunction" THEN difference
        ELSE Returned(~ \E k \in DOMAIN difference.func_list :
                            difference.func_list[k] # PolyMul(Const(0), self.func_list[1]))

\* self == other: the supports and the variables are equal and every
\* function of self - other is the zero polynomial
__eq__(self, other) ==
    IF self.support # other.support \/ self.var # other.var
    THEN Returned(FALSE)
    ELSE LET difference == __sub__(self, other)
         IN  IF difference.kind # "PiecewiseFunction" THEN difference
             ELSE Returned(~ \E k \in DOMAIN difference.func_list :
                                 difference.func_list[k] # PolyMul(Const(0), self.func_list[1]))

\* the integers q with q * c = a, for c # 0: none or one
Quotients(a, c) ==
    { q \in (IF a < 0 THEN a ELSE -a)..(IF a < 0 THEN -a ELSE a) : q * c = a }

\* is the number c a divisor of every coefficient of func
Divides(c, func) == \A k \in DOMAIN func : Quotients(func[k], c) # {}

\* func / c for a divisor c of the coefficients of func
PolyDiv(func, c) ==
    [k \in DOMAIN func |-> CHOOSE q \in Quotients(func[k], c) : TRUE]

\* func ** power
RECURSIVE PolyPow(_, _)
PolyPow(func, power) ==
    IF power = 0 THEN Const(1) ELSE PolyMul(func, PolyPow(func, power - 1))

\* self / other for a number other
__truediv__(self, other) ==
    __init__([k \in DOMAIN self.func_list |->
                    <<self.domain_list[k], PolyDiv(self.func_list[k], other.val)>>])

\* __pow__ that squares whatever the power
__pow__Squaring(self, power) ==
    __init__([k \in DOMAIN self.func_list |->
                    <<self.domain_list[k], PolyPow(self.func_list[k], 2)>>])

\* self ** power
__pow__(self, power) ==
    __init__([k \in DOMAIN self.func_list |->
                    <<self.domain_list[k], PolyPow(self.func_list[k], power)>>])

\* -self for a PiecewiseFunction_polynomial
polynomial__neg__(self) ==
    __init__([k \in DOMAIN self.func_list |->
                    <<self.domain_list[k], PolyNeg(self.func_list[k])>>])

\* self - other for PiecewiseFunction_polynomial
polynomial__sub__(self, other) == polynomial__add__(self, polynomial__neg__(other))

\* self == other for PiecewiseFunction_polynomial
polynomial__eq__(self, other) ==
    IF self.support # other.support \/ self.var # other.var
    THEN Returned(FALSE)
    ELSE LET difference == polynomial__sub__(self, other)
         IN  IF difference.kind # "PiecewiseFunction" THEN difference
             ELSE Returned(~ \E k \in DOMAIN difference.func_list :
                                 difference.func_list[k] # PolyMul(Const(0), self.func_list[1]))

\* func._derivative(var)
PolyDerivative(func) ==
    PolyNorm([k \in 1..(Len(func) - 1) |-> k * func[k + 1]])

\* self.derivative()
derivative(self) ==
    __init__([k \in DOMAIN self.func_list |->
                    <<self.domain_list[k], PolyDerivative(self.func_list[k])>>])

\* an exception left the call that gave r
Raised(r) == r.kind \in { "ValueError", "AttributeError" }

\* the expression a - other, for the outcome a of an earlier operation: an
\* exception propagates, and None - other ends in None.__add__
Minus(a, other) ==
    IF Raised(a) THEN a
    ELSE IF a = ReturnedNone THEN AttributeError
    ELSE __sub__(a, other)

\* the expression a == b, for the outcomes a and b of earlier operations:
\* an exception propagates, None == None is True, and None compared with a
\* function ends in None.support
Equals(a, b) ==
    IF Raised(a) THEN a
    ELSE IF Raised(b) THEN b
    ELSE IF a = ReturnedNone /\ b = ReturnedNone THEN Returned(TRUE)
    ELSE IF a = ReturnedNone \/ b = ReturnedNone THEN AttributeError
    ELSE __eq__(a, b)

----------------------------------------------------------------------------
(* The endpoint table and the queries answered from it *)

\* the magnitude standing for Infinity among the values of the functions
Infinity == 1000000

\* func(x), also for an infinite endpoint x, where a polynomial that is not
\* constant takes the value +Infinity or -Infinity
PolyAt(func, x) ==
    IF x # NegInf /\ x # PosInf THEN PolyEval(func, x)
    ELSE IF Len(func) <= 1 THEN PolyEval(func, 0)
    ELSE LET lead == IF func[Len(func)] > 0 THEN 1 ELSE -1
             flip == IF x = NegInf /\ (Len(func) - 1) % 2 = 1 THEN -1 ELSE 1
         IN  lead * flip * Infinity

\* RealSet._scan(): ((x, epsilon), delta) with delta -1 at the lower end of
\* an interval (epsilon 0 if closed) and +1 at its upper end (epsilon 1 if
\* closed)
RECURSIVE _scan(_)
_scan(realset) ==
    IF realset = <<>> THEN <<>>
    ELSE << <<Head(realset).lower, 1 - int(Head(realset).lower_closed), -1>>,
            <<Head(realset).upper, int(Head(realset).upper_closed), 1>> >>
         \o _scan(Tail(realset))

\* The body of the loop over dom._scan() for one event: the entry of x is
\* <<value, <<e0, e1>>>>, every component None or Some of a value
RecordEndPoint(end_points, ev, func) ==
    LET x == ev[1]
        epsilon == ev[2]
        delta == ev[3]
        old == IF x \in DOMAIN end_points THEN end_points[x]
               ELSE <<None, <<None, None>>>>
        func_val == Some(PolyAt(func, x))
        new == IF delta < 0
               THEN << IF epsilon = 0 THEN func_val ELSE old[1],
                       <<old[2][1], func_val>> >>
               ELSE << IF epsilon = 1 THEN func_val ELSE old[1],
                       <<func_val, old[2][2]>> >>
    IN  [y \in DOMAIN end_points \cup {x} |->
            IF y = x THEN new ELSE end_points[y]]

RECURSIVE RecordEndPoints(_, _, _)
RecordEndPoints(end_points, scan, func) ==
    IF scan = <<>> THEN end_points
    ELSE RecordEndPoints(RecordEndPoint(end_points, Head(scan), func),
                         Tail(scan), func)

\* The loop over the pieces, from piece i on
RECURSIVE RecordPieces(_, _, _)
RecordPieces(end_points, self, i) ==
    IF i > Len(self.domain_list) THEN end_points
    ELSE RecordPieces(RecordEndPoints(end_points, _scan(self.domain_list[i]),
                                      self.func_list[i]),
                      self, i + 1)

\* self after _init_end_points()
_init_end_points(self) ==
    [self EXCEPT
        !._end_points_list =
            merge([k \in DOMAIN self.domain_list |->
                      _iterator(self.domain_list[k], k - 1)]),
        !._end_points = RecordPieces(<<>>, self, 1)]

\* "not d" for a dictionary or list d that may be None
Not(d) == DOMAIN d = {}

\* bisect.bisect_left(a, x) on a sorted list a of events
bisect_left(a, x) == Cardinality({ k \in DOMAIN a : TupleLess(a[k], x) })

\* LocatePair that searches from the event ((x0, 0), -1)
LocatePairFromOpen(self, x0) ==
    LET idx == bisect_left(self._end_points_list, <<x0, 0, -1, 0>>)
    IN  IF idx <= 0 \/ idx >= Len(self._end_points_list) THEN ReturnedNone
        ELSE LET event == self._end_points_list[idx + 1]
                 func_idx == event[4]
             IN  IF event[3] < 0
                 THEN Returned(<<self.domain_list[func_idx + 1],
                                 self.func_list[func_idx + 1]>>)
                 ELSE ReturnedNone

\* which_pair on a function whose table is built
LocatePair(self, x0) ==
    LET idx == bisect_left(self._end_points_list, <<x0, 1, -1, 0>>)
    IN  IF idx <= 0 \/ idx >= Len(self._end_points_list) THEN ReturnedNone
        ELSE LET event == self._end_points_list[idx + 1]
                 func_idx == event[4]
             IN  IF event[3] < 0
                 THEN Returned(<<self.domain_list[func_idx + 1],
                                 self.func_list[func_idx + 1]>>)
                 ELSE ReturnedNone

\* self.which_pair(x0): self after the call, what the call returned, and
\* whether the call ran _init_end_points
which_pair(self, x0) ==
    LET built == IF Not(self._end_points) THEN _init_end_points(self) ELSE self
    IN  [self |-> built, returned |-> LocatePair(built, x0),
         initialized |-> Not(self._end_points)]

\* limits on a function whose table is built
LimitsAt(self, x0) ==
    IF x0 \in DOMAIN self._end_points
    THEN Returned(<<self._end_points[x0][1], self._end_points[x0][2][1],
                    self._end_points[x0][2][2]>>)
    ELSE LET result_ == LocatePair(self, x0)
         IN  IF result_ # ReturnedNone
             THEN LET func_val == Some(PolyEval(result_.val[2], x0))
                  IN  Returned(<<func_val, func_val, func_val>>)
             ELSE Returned(<<None, None, None>>)

\* self.limits(x0)
limits(self, x0) ==
    LET built == IF Not(self._end_points) THEN _init_end_points(self) ELSE self
    IN  [self |-> built, returned |-> LimitsAt(built, x0),
         initialized |-> Not(self._end_points)]

\* "if val": a value that is neither None nor 0
Truthy(val) == val # None /\ val # Some(0)

\* NoJump that also takes an absent limit for a jump
NoJumpBothSides(self) ==
    \A point \in DOMAIN self._end_points :
        LET val == self._end_points[point][1]
            left == self._end_points[point][2][1]
            right == self._end_points[point][2][2]
        IN  Truthy(val) => ~(left # val \/ right # val)

\* is_continuous on a function whose table is built
NoJump(self) ==
    \A point \in DOMAIN self._end_points :
        LET val == self._end_points[point][1]
            left == self._end_points[point][2][1]
            right == self._end_points[point][2][2]
        IN  Truthy(val) =>
               ~((left # None /\ left # val) \/ (right # None /\ right # val))

\* self.is_continuous()
is_continuous(self) ==
    LET built == IF Not(self._end_points) THEN _init_end_points(self) ELSE self
    IN  [self |-> built, returned |-> Returned(NoJump(built)),
         initialized |-> Not(self._end_points)]

\* The loop of is_continuous_defined over range(ind, len(...)), from i on
\* (counted from 0)
RECURSIVE ScanRange(_, _, _, _, _)
ScanRange(self, i, seen, xmin, xmax) ==
    IF i >= Len(self._end_points_list) THEN TRUE
    ELSE LET point == self._end_points_list[i + 1][1]
             val == self._end_points[point][1]
             left == self._end_points[point][2][1]
             right == self._end_points[point][2][2]
         IN  IF point \in seen THEN ScanRange(self, i + 1, seen, xmin, xmax)
             ELSE IF point = xmin /\ val # right THEN FALSE
             ELSE IF point = xmax /\ val # left THEN FALSE
             ELSE IF xmin < point /\ point < xmax
                     /\ (val # left \/ val # right) THEN FALSE
             ELSE IF point > xmax THEN TRUE
             ELSE ScanRange(self, i + 1, seen \cup {point}, xmin, xmax)

\* self.is_continuous_defined(xmin, xmax) for xmin <= xmax
is_continuous_defined(self, xmin, xmax) ==
    LET built == IF Not(self._end_points_list) THEN _init_end_points(self)
                 ELSE self
    IN  [self |-> built,
         returned |->
            IF ~(\A x \in xmin..xmax : Contains(built.support, x))
            THEN Returned(FALSE)
            ELSE Returned(ScanRange(
                    built,
                    bisect_left(built._end_points_list, <<xmin, 0, -1, 0>>),
                    {}, xmin, xmax)),
         initialized |-> Not(self._end_points_list)]

----------------------------------------------------------------------------
(* The arguments the operations are tried on *)

\* The lists of exactly len members of DOMAIN W whose weights W[x] add up
\* to at most budget
RECURSIVE Budgeted(_, _, _)
Budgeted(W, len, budget) ==
    IF len = 0 THEN { <<>> }
    ELSE UNION { { <<x>> \o rest : rest \in Budgeted(W, len - 1, budget - W[x]) } :
                 x \in { y \in DOMAIN W : W[y] <= budget } }

\* The polynomials 2, t and 4 - t: all three take the value 2 at t = 2, and
\* 4 - t vanishes at t = 4
InputFuncs == { <<2>>, <<0, 1>>, <<4, -1>> }

\* The polynomials t and 4 - t of the operands of the combinators
OperandFuncs == << <<0, 1>>, <<4, -1>> >>

\* An operand is given by the polynomial (0: none) it takes at each point
Assignments == [Points -> 0..Len(OperandFuncs)]

\* the number of intervals on which an operand keeps to one polynomial
NumRuns(a) ==
    Cardinality({ x \in Points : a[x] # 0 /\ (x = 1 \/ a[x - 1] # a[x]) })

\* the constructor's argument for an operand: one piece per polynomial
PiecesOf(a) ==
    [k \in DOMAIN OperandFuncs |->
        <<RealSet({ x \in Points : a[x] = k }), OperandFuncs[k]>>]

----------------------------------------------------------------------------
(* Specification of finest_partitions: any list of RealSets is partitioned *)

InitPartition ==
    /\ op = "init"
    /\ \E n \in 0..MaxSets :
          real_set_collection
              \in Budgeted([r \in RealSets |-> Len(r)], n, MaxIntervals)
    /\ partitions = <<>>
    /\ function_pieces = <<>>
    /\ collection = <<>>
    /\ union = None
    /\ call = None
    /\ result = None

FinestPartitions ==
    /\ op = "init"
    /\ op' = "finest_partitions"
    /\ partitions' = finest_partitions(real_set_collection)
    /\ UNCHANGED <<real_set_collection, function_pieces, collection, union,
                   call, result>>

NextPartition == FinestPartitions

SpecPartition == InitPartition /\ [][NextPartition]_vars

----------------------------------------------------------------------------
(* Specification of the constructor: any list of pieces is handed to it *)

InitConstruct ==
    /\ op = "init"
    /\ \E n \in 0..MaxPieces :
          function_pieces
              \in Budgeted([piece \in RealSets \X InputFuncs |-> Len(piece[1])],
                           n, MaxIntervals)
    /\ real_set_collection = <<>>
    /\ partitions = <<>>
    /\ collection = <<>>
    /\ union = None
    /\ call = None
    /\ result = None

Construct ==
    /\ op = "init"
    /\ op' = "__init__"
    /\ result' = __init__(function_pieces)
    /\ collection' = IF result'.kind = "PiecewiseFunction"
                     THEN <<result'>> ELSE <<>>
    /\ UNCHANGED <<real_set_collection, partitions, function_pieces, union,
                   call>>

NextConstruct == Construct

SpecConstruct == InitConstruct /\ [][NextConstruct]_vars

----------------------------------------------------------------------------
(* Specification of the combinators: the operands are constructed          *)
(* functions, collection[1] is self and collection[2] is other             *)

InitOperands(n) ==
    /\ op = "init"
    /\ \E as \in Budgeted([a \in Assignments |-> NumRuns(a)], n, MaxIntervals) :
          collection = [k \in 1..n |-> __init__(PiecesOf(as[k]))]
    /\ real_set_collection = <<>>
    /\ partitions = <<>>
    /\ function_pieces = <<>>
    /\ union = None
    /\ call = None
    /\ result = None

InitCombine == \E n \in 1..MaxSets : InitOperands(n)

Combined(name, u, r) ==
    /\ op = "init"
    /\ op' = name
    /\ union' = u
    /\ result' = r
    /\ UNCHANGED <<real_set_collection, partitions, function_pieces,
                   collection, call>>

Add ==
    /\ Len(collection) = 2
    /\ Combined("piecewise_add", None,
                piecewise_add(collection[1], collection[2]))

Mul ==
    /\ Len(collection) = 2
    /\ Combined("piecewise_mul", None,
                piecewise_mul(collection[1], collection[2]))

AddGeneral ==
    /\ Len(collection) = 2
    /\ \E u \in BOOLEAN :
          Combined("piecewise_add_general", Some(u),
                   piecewise_add_general(collection[1], collection[2], u))

MulGeneral ==
    /\ Len(collection) = 2
    /\ \E u \in BOOLEAN :
          Combined("piecewise_mul_general", Some(u),
                   piecewise_mul_general(collection[1], collection[2], u))

SumGeneral ==
    \E u \in BOOLEAN :
        Combined("piecewise_sum_general", Some(u),
                 piecewise_sum_general(collection, u))

PolynomialAdd ==
    \E u \in { None, Some(TRUE), Some(FALSE) } :
        Combined("PiecewisePolynomial_add", u,
                 PiecewisePolynomial_add(collection, u))

PolynomialMul ==
    \E u \in { None, Some(TRUE), Some(FALSE) } :
        Combined("PiecewisePolynomial_mul", u,
                 PiecewisePolynomial_mul(collection, u))

\* self + other
Plus ==
    /\ Len(collection) = 2
    /\ Combined("__add__", None, __add__(collection[1], collection[2]))

\* self * other
Times ==
    /\ Len(collection) = 2
    /\ Combined("__mul__", None, __mul__(collection[1], collection[2]))

PolynomialPlus ==
    /\ Len(collection) = 2
    /\ Combined("polynomial__add__", None,
                polynomial__add__(collection[1], collection[2]))

PolynomialTimes ==
    /\ Len(collection) = 2
    /\ Combined("polynomial__mul__", None,
                polynomial__mul__(collection[1], collection[2]))

NextCombine ==
    \/ Plus
    \/ Times
    \/ PolynomialPlus
    \/ PolynomialTimes
    \/ Add
    \/ Mul
    \/ AddGeneral
    \/ MulGeneral
    \/ SumGeneral
    \/ PolynomialAdd
    \/ PolynomialMul

SpecCombine == InitCombine /\ [][NextCombine]_vars

----------------------------------------------------------------------------
(* Specification of evaluation: a constructed function is called *)

Names == { "t", "s" }

\* a value other than x
Other(x) == IF x = 1 THEN 2 ELSE x - 1

InitEvaluate == InitOperands(1)

Call ==
    /\ op = "init"
    /\ op' = "__call__"
    /\ \E x \in Points, nargs \in 0..2, names \in SUBSET Names :
          /\ call' = [args |-> [k \in 1..nargs |-> IF k = 1 THEN x ELSE Other(x)],
                      kwds |-> [n \in names |-> IF n = "t" THEN x ELSE Other(x)]]
          /\ result' = __call__(collection[1], call'.args, call'.kwds)
    /\ UNCHANGED <<real_set_collection, partitions, function_pieces,
                   collection, union>>

NextEvaluate == Call

SpecEvaluate == InitEvaluate /\ [][NextEvaluate]_vars

----------------------------------------------------------------------------
(* Properties *)

\* the pieces of the object obj have pairwise disjoint domains
PairwiseDisjoint(obj) ==
    \A i, j \in DOMAIN obj.domain_list :
        i # j => \A x \in Points :
                    ~(Contains(obj.domain_list[i], x)
                      /\ Contains(obj.domain_list[j], x))

\* C1: every PiecewiseFunction the constructor returns has pairwise
\* disjoint piece domains: no point lies in the domains of two pieces.
C1_DisjointPieces ==
    /\ result # None /\ result.kind = "PiecewiseFunction"
          => PairwiseDisjoint(result)
    /\ \A k \in DOMAIN collection : PairwiseDisjoint(collection[k])

\* a function of two or more pieces was built from pieces that the
\* constructor had to coalesce
C1_Witness ==
    /\ op = "__init__"
    /\ result.kind = "PiecewiseFunction"
    /\ Len(result.domain_list) >= 2
    /\ \E k \in DOMAIN result.domain_list : Len(result.domain_list[k]) >= 2

\* the points of the emitted interval k
Emitted(k) == PointsOf(partitions[k].real_set)

\* the points of the input i
Input(i) == PointsOf(real_set_collection[i])

\* C2: the intervals finest_partitions emits are pairwise disjoint and their
\* union is exactly the union of the input domains.
C2_PartitionOfUnion ==
    op = "finest_partitions" =>
        /\ \A k, l \in DOMAIN partitions : k # l => Emitted(k) \cap Emitted(l) = {}
        /\ UNION { Emitted(k) : k \in DOMAIN partitions }
              = UNION { Input(i) : i \in DOMAIN real_set_collection }

\* overlapping inputs with a gap in their union were partitioned
C2_Witness ==
    /\ op = "finest_partitions"
    /\ Len(partitions) >= 3
    /\ \E i, j \in DOMAIN real_set_collection :
          i # j /\ Input(i) \cap Input(j) # {}
    /\ \E x \in Points :
          /\ \A i \in DOMAIN real_set_collection : x \notin Input(i)
          /\ \E y, z \in UNION { Emitted(k) : k \in DOMAIN partitions } :
                y < x /\ x < z

\* C3: for every emitted pair (I, v) and every input i, v[i] is 1 exactly
\* when I is a subset of the input domain i, and 0 exactly when I is disjoint
\* from it; no other value occurs.
C3_MembershipVector ==
    op = "finest_partitions" =>
        \A k \in DOMAIN partitions :
            /\ Len(partitions[k].inds) = Len(real_set_collection)
            /\ \A i \in DOMAIN real_set_collection :
                  /\ partitions[k].inds[i] \in {0, 1}
                  /\ partitions[k].inds[i] = 1 <=> Emitted(k) \subseteq Input(i)
                  /\ partitions[k].inds[i] = 0 <=> Emitted(k) \cap Input(i) = {}

\* an interval covered by two inputs and an interval covered by one of them
\* only were emitted
C3_Witness ==
    /\ op = "finest_partitions"
    /\ \E k, l \in DOMAIN partitions :
          /\ sum(partitions[k].inds) = 2
          /\ sum(partitions[l].inds) = 1

\* the input i has an interval [a, b] with a < b and the input j an interval
\* [b, c] with b < c, both closed at b
AdjacentClosed(i, j, b) ==
    /\ i # j
    /\ \E m \in DOMAIN real_set_collection[i] :
          /\ real_set_collection[i][m].upper = b
          /\ real_set_collection[i][m].upper_closed
          /\ real_set_collection[i][m].lower < b
    /\ \E m \in DOMAIN real_set_collection[j] :
          /\ real_set_collection[j][m].lower = b
          /\ real_set_collection[j][m].lower_closed
          /\ real_set_collection[j][m].upper > b

\* C4: when two inputs hold adjacent intervals that are both closed at
\* their common endpoint b, the point {b} is emitted as an interval of its
\* own, marked for both inputs, and every other emitted interval that ends
\* or starts at b is open there.
C4_SharedClosedPoint ==
    op = "finest_partitions" =>
        \A i, j \in DOMAIN real_set_collection : \A b \in EndPts :
            AdjacentClosed(i, j, b) =>
                /\ \E k \in DOMAIN partitions :
                      /\ partitions[k].real_set
                            = <<InternalRealInterval(b, TRUE, b, TRUE)>>
                      /\ partitions[k].inds[i] = 1
                      /\ partitions[k].inds[j] = 1
                /\ \A k \in DOMAIN partitions :
                      \A m \in DOMAIN partitions[k].real_set :
                          LET I == partitions[k].real_set[m]
                          IN  /\ I.upper = b /\ I.lower < b => ~I.upper_closed
                              /\ I.lower = b /\ I.upper > b => ~I.lower_closed

\* two such inputs were partitioned into [a, b), {b} and (b, c]
C4_Witness ==
    /\ op = "finest_partitions"
    /\ Len(partitions) = 3
    /\ \E i, j \in DOMAIN real_set_collection : \E b \in EndPts :
          AdjacentClosed(i, j, b)

\* two of the pieces handed to the constructor have domains that share a point
InputOverlaps ==
    \E i, j \in DOMAIN function_pieces :
        /\ i # j
        /\ PointsOf(function_pieces[i][1]) \cap PointsOf(function_pieces[j][1]) # {}

\* C9: construction raises ValueError whenever the domains of two of the
\* given pieces share a point, whatever functions the two pieces carry.
C9_OverlapRaises ==
    op = "__init__" /\ InputOverlaps => result = ValueError

\* the points of the support of the operand k
Support(k) == PointsOf(collection[k].support)

SupportsEqual ==
    \A k, l \in DOMAIN collection : collection[k].support = collection[l].support

\* the operation is one of the strict combinations
Strict ==
    \/ op \in { "__add__", "__mul__", "polynomial__add__", "polynomial__mul__",
                "piecewise_add", "piecewise_mul" }
    \/ /\ op \in { "PiecewisePolynomial_add", "PiecewisePolynomial_mul" }
       /\ union = None

\* C5: a strict combination (+, *, piecewise_add, piecewise_mul, and
\* PiecewisePolynomial_add / PiecewisePolynomial_mul without union) raises
\* ValueError exactly when the supports of the operands are not all equal,
\* and otherwise returns a function with the operands' support.
C5_StrictRaisesIffUnequal ==
    Strict =>
        /\ result = ValueError <=> ~SupportsEqual
        /\ SupportsEqual => /\ result.kind = "PiecewiseFunction"
                            /\ result.support = collection[1].support

\* the operation is a general combination, called with a value of union
General ==
    /\ op \in { "piecewise_add_general", "piecewise_mul_general",
                "piecewise_sum_general", "PiecewisePolynomial_add",
                "PiecewisePolynomial_mul" }
    /\ union # None

\* the operation multiplies
Multiplies ==
    op \in { "piecewise_mul_general", "PiecewisePolynomial_mul" }

\* the piece of f whose domain contains x, 0 if there is none
PieceAt(f, x) ==
    IF \E k \in DOMAIN f.domain_list : Contains(f.domain_list[k], x)
    THEN CHOOSE k \in DOMAIN f.domain_list : Contains(f.domain_list[k], x)
    ELSE 0

FuncOf(f, x) == f.func_list[PieceAt(f, x)]

\* the sum or the product of the functions that the operands k, k + 1, ...
\* whose supports contain x have at x
RECURSIVE Combination(_, _)
Combination(x, k) ==
    IF k > Len(collection) THEN Const(IF Multiplies THEN 1 ELSE 0)
    ELSE IF PieceAt(collection[k], x) = 0 THEN Combination(x, k + 1)
    ELSE IF Multiplies
    THEN PolyMul(FuncOf(collection[k], x), Combination(x, k + 1))
    ELSE PolyAdd(FuncOf(collection[k], x), Combination(x, k + 1))

\* f is the function g around x: an odd x stands for all the points of an
\* open interval, where two polynomials agree only if they are the same, and
\* an even x for the single point x
SameAt(f, g, x) ==
    IF x % 2 = 1 THEN f = g ELSE PolyEval(f, x) = PolyEval(g, x)

\* C6: a general combination with union=True returns a function whose
\* support is the union of the operands' supports and whose value at every
\* point of it is the sum (the product) of the values of exactly the
\* operands whose support contains the point.
C6_UnionCombine ==
    General /\ union = Some(TRUE) =>
        /\ result.kind = "PiecewiseFunction"
        /\ PointsOf(result.support)
              = UNION { Support(k) : k \in DOMAIN collection }
        /\ \A x \in PointsOf(result.support) :
              /\ PieceAt(result, x) # 0
              /\ SameAt(FuncOf(result, x), Combination(x, 1), x)

\* a product was taken over the union of two supports, each with points of
\* its own besides the points they share
C6_Witness ==
    /\ op = "piecewise_mul_general"
    /\ union = Some(TRUE)
    /\ Support(1) \cap Support(2) # {}
    /\ Support(1) \ Support(2) # {}
    /\ Support(2) \ Support(1) # {}
    /\ result.kind = "PiecewiseFunction"

\* C7: a general combination with union=False of N >= 1 functions returns
\* a function whose support is the intersection of the N supports and whose
\* value at every point of it is the sum (the product) of the values of all
\* the N functions.
C7_IntersectionCombine ==
    General /\ union = Some(FALSE) =>
        /\ result.kind = "PiecewiseFunction"
        /\ PointsOf(result.support)
              = { x \in Points : \A k \in DOMAIN collection : x \in Support(k) }
        /\ \A x \in PointsOf(result.support) :
              /\ PieceAt(result, x) # 0
              /\ \A k \in DOMAIN collection : PieceAt(collection[k], x) # 0
              /\ SameAt(FuncOf(result, x), Combination(x, 1), x)

\* a sum was taken over the intersection of two supports, which neither of
\* the two is
C7_Witness ==
    /\ op = "piecewise_sum_general"
    /\ union = Some(FALSE)
    /\ Len(collection) = 2
    /\ Support(1) \cap Support(2) # {}
    /\ Support(1) \ Support(2) # {}
    /\ Support(2) \ Support(1) # {}
    /\ result.kind = "PiecewiseFunction"

\* the union-general sum of two functions with disjoint supports was taken
DisjointSum ==
    /\ op = "piecewise_add_general"
    /\ union = Some(TRUE)
    /\ Support(1) # {}
    /\ Support(2) # {}
    /\ Support(1) \cap Support(2) = {}

\* x lies in a gap between the domains of the two operands
Gap(x) ==
    /\ x \notin Support(1) \cup Support(2)
    /\ \E y, z \in Support(1) \cup Support(2) : y < x /\ x < z

\* the sum has at every point of an operand's support that operand's function
CoveringOperand ==
    \A k \in DOMAIN collection : \A x \in Support(k) :
        /\ PieceAt(result, x) # 0
        /\ SameAt(FuncOf(result, x), FuncOf(collection[k], x), x)

\* C8 as stated: the union-general sum of two functions with disjoint
\* supports has the value 0 at the points of the gaps between the operands'
\* domains and the covering operand's function at every other point.
C8_ZeroOnGaps ==
    DisjointSum =>
        /\ result.kind = "PiecewiseFunction"
        /\ \A x \in Points : Gap(x) => Lookup(result, 1, x) = Returned(0)
        /\ CoveringOperand

\* C8 amended: the union-general sum of two functions with disjoint
\* supports is undefined at the points of the gaps between the operands'
\* domains (they are not in its support and evaluation returns None there)
\* and has the covering operand's function at every point of the union.
C8_UndefinedOnGaps ==
    DisjointSum =>
        /\ result.kind = "PiecewiseFunction"
        /\ \A x \in Points :
              Gap(x) => /\ x \notin PointsOf(result.support)
                        /\ Lookup(result, 1, x) = ReturnedNone
        /\ CoveringOperand

\* such a sum was taken of functions with a gap between their domains
C8_Witness ==
    /\ DisjointSum
    /\ \E x \in Points : Gap(x)
    /\ result.kind = "PiecewiseFunction"

\* the call supplies exactly one value: one positional argument and no
\* keyword, or the keyword of the function's variable alone
ExactlyOne(self, c) ==
    \/ Len(c.args) = 1 /\ DOMAIN c.kwds = {}
    \/ Len(c.args) = 0 /\ DOMAIN c.kwds = { self.var }

\* the value supplied by such a call
Supplied(self, c) == IF Len(c.args) = 1 THEN c.args[1] ELSE c.kwds[self.var]

\* C10: a call p(x) with exactly one supplied value returns f(x) for the
\* piece (D, f) of p whose domain D contains x, and returns None, without
\* raising, when no piece contains x; p is left as it was.
C10_Evaluate ==
    [][op' = "__call__" /\ ExactlyOne(collection[1], call') =>
          LET p == collection[1]
              x == Supplied(p, call')
          IN  /\ collection' = collection
              /\ \A k \in DOMAIN p.domain_list :
                    Contains(p.domain_list[k], x)
                        => result' = Returned(PolyEval(p.func_list[k], x))
              /\ (\A k \in DOMAIN p.domain_list : ~Contains(p.domain_list[k], x))
                        => result' = ReturnedNone]_vars

\* a function of two pieces was called by keyword at a point of its second
\* piece and returned that piece's value
C10_Witness ==
    /\ op = "__call__"
    /\ Len(call.args) = 0
    /\ DOMAIN call.kwds = { "t" }
    /\ Len(collection[1].domain_list) = 2
    /\ Contains(collection[1].domain_list[2], call.kwds["t"])
    /\ result = Returned(PolyEval(collection[1].func_list[2], call.kwds["t"]))

Evaluated(self, c) ==
    \/ Len(c.args) = 1 /\ DOMAIN c.kwds = {}
    \/ Len(c.args) = 0 /\ self.var \in DOMAIN c.kwds

----------------------------------------------------------------------------
(* Specification of the queries: a constructed function is asked           *)
(* which_pair, limits, is_continuous and is_continuous_defined, again and  *)
(* again                                                                   *)

\* the functions the constructor builds from the lists of pieces
Constructed ==
    { __init__(pieces) :
        pieces \in UNION { Budgeted([piece \in RealSets \X InputFuncs |->
                                        Len(piece[1])], n, MaxIntervals) :
                           n \in 0..MaxPieces } } \ { ValueError }

InitQuery ==
    /\ op = "init"
    /\ \E self \in Constructed : collection = <<self>>
    /\ real_set_collection = <<>>
    /\ partitions = <<>>
    /\ function_pieces = <<>>
    /\ union = None
    /\ call = None
    /\ result = None

Queried(name, args, r) ==
    /\ op' = name
    /\ call' = [args |-> args, kwds |-> <<>>,
                _init_end_points |-> r.initialized]
    /\ collection' = <<r.self>>
    /\ result' = r.returned
    /\ UNCHANGED <<real_set_collection, partitions, function_pieces, union>>

WhichPair ==
    \E x0 \in Points : Queried("which_pair", <<x0>>, which_pair(collection[1], x0))

Limits ==
    \E x0 \in Points : Queried("limits", <<x0>>, limits(collection[1], x0))

IsContinuous ==
    Queried("is_continuous", <<>>, is_continuous(collection[1]))

IsContinuousDefined ==
    \E xmin, xmax \in Points :
        /\ xmin <= xmax
        /\ Queried("is_continuous_defined", <<xmin, xmax>>,
                   is_continuous_defined(collection[1], xmin, xmax))

NextQuery ==
    \/ WhichPair
    \/ Limits
    \/ IsContinuous
    \/ IsContinuousDefined

SpecQuery == InitQuery /\ [][NextQuery]_vars

\* C12: which_pair(x) returns the piece (domain, function) whose domain
\* contains x when x is in the support and None when it is not, at boundary
\* points, open and closed ends and single-point pieces alike; it returns a
\* piece exactly when evaluation at x is defined, and the function of that
\* piece has at x the value of the evaluation.
C12_WhichPair ==
    op = "which_pair" =>
        LET p == collection[1]
            x == call.args[1]
            k == PieceAt(p, x)
        IN  /\ Contains(p.support, x)
               => /\ k # 0
                  /\ result = Returned(<<p.domain_list[k], p.func_list[k]>>)
                  /\ Lookup(p, 1, x) = Returned(PolyEval(result.val[2], x))
            /\ ~Contains(p.support, x)
               => /\ result = ReturnedNone
                  /\ Lookup(p, 1, x) = ReturnedNone

\* which_pair found the piece of a point that is the open end of another
\* piece's interval
C12_Witness ==
    /\ op = "which_pair"
    /\ result # ReturnedNone
    /\ \E k \in DOMAIN collection[1].domain_list :
          \E m \in DOMAIN collection[1].domain_list[k] :
              /\ collection[1].domain_list[k][m].upper = call.args[1]
              /\ ~collection[1].domain_list[k][m].upper_closed
              /\ collection[1].domain_list[k] # result.val[1]

\* the entry the table of p holds for the boundary point x: the value at x,
\* the limit recorded at the upper ends of intervals (from the left) and the
\* limit recorded at their lower ends (from the right)
CachedValue(p, x) == p._end_points[x][1]

CachedLeft(p, x) == p._end_points[x][2][1]

CachedRight(p, x) == p._end_points[x][2][2]

\* C13: for a recorded boundary point x, limits(x) returns the cached
\* triple in the order (value at x, right-hand limit at x, left-hand limit
\* at x).
C13_LimitsOrder ==
    op = "limits" /\ call.args[1] \in DOMAIN collection[1]._end_points =>
        result = Returned(<<CachedValue(collection[1], call.args[1]),
                            CachedRight(collection[1], call.args[1]),
                            CachedLeft(collection[1], call.args[1])>>)

\* C14: is_continuous() returns False whenever some boundary point has a
\* defined value (0 included) and an adjacent one-sided limit that is
\* present and different from that value.
C14_JumpIsDiscontinuous ==
    op = "is_continuous" =>
        ((\E x \in DOMAIN collection[1]._end_points :
              /\ CachedValue(collection[1], x) # None
              /\ \/ /\ CachedLeft(collection[1], x) # None
                    /\ CachedLeft(collection[1], x) # CachedValue(collection[1], x)
                 \/ /\ CachedRight(collection[1], x) # None
                    /\ CachedRight(collection[1], x) # CachedValue(collection[1], x))
            => result = Returned(FALSE))

\* the finite endpoints of the intervals of the piece domains of p
BoundaryPoints(p) ==
    { x \in EndPts \ { NegInf, PosInf } :
        \E k \in DOMAIN p.domain_list : \E m \in DOMAIN p.domain_list[k] :
            p.domain_list[k][m].lower = x \/ p.domain_list[k][m].upper = x }

\* the value of p at x, None where p is not defined
ValueAt(p, x) ==
    IF PieceAt(p, x) = 0 THEN None ELSE Some(PolyEval(FuncOf(p, x), x))

\* the limit at the boundary point x of the piece of p that covers the
\* points just left of x (side = -1) or just right of x (side = 1), None
\* when no piece covers them
LimitAt(p, x, side) ==
    IF PieceAt(p, x + side) = 0 THEN None
    ELSE Some(PolyEval(FuncOf(p, x + side), x))

\* at the boundary point x the limit of p from that side, if there is one,
\* is the value of p at x
Meets(p, x, side) ==
    LimitAt(p, x, side) # None => LimitAt(p, x, side) = ValueAt(p, x)

\* at every boundary point where p has a value, the limits of p that are
\* present equal it
MeetsEverywhere(p) ==
    \A x \in BoundaryPoints(p) :
        ValueAt(p, x) # None => Meets(p, x, -1) /\ Meets(p, x, 1)

\* C15: is_continuous() returns True for every function in which, at every
\* boundary point with a defined value, each one-sided limit that is
\* present equals that value.
C15_MatchingIsContinuous ==
    op = "is_continuous" /\ MeetsEverywhere(collection[1])
        => result = Returned(TRUE)

\* is_continuous() was True for a function of two pieces with different
\* functions that meet at a common endpoint
C15_Witness ==
    /\ op = "is_continuous"
    /\ MeetsEverywhere(collection[1])
    /\ result = Returned(TRUE)
    /\ Len(collection[1].domain_list) = 2
    /\ \E x \in BoundaryPoints(collection[1]) :
          /\ PieceAt(collection[1], x - 1) # 0
          /\ PieceAt(collection[1], x + 1) # 0
          /\ PieceAt(collection[1], x - 1) # PieceAt(collection[1], x + 1)
          /\ FuncOf(collection[1], x - 1) # FuncOf(collection[1], x + 1)
          /\ ValueAt(collection[1], x) # None
          /\ ValueAt(collection[1], x) # Some(0)

\* the check the boundary point b of p has to pass for [xmin, xmax]
PassesAt(p, b, xmin, xmax) ==
    /\ b = xmin => LimitAt(p, b, 1) = ValueAt(p, b)
    /\ b = xmax => LimitAt(p, b, -1) = ValueAt(p, b)
    /\ xmin < b /\ b < xmax => /\ LimitAt(p, b, -1) = ValueAt(p, b)
                               /\ LimitAt(p, b, 1) = ValueAt(p, b)

\* C16: is_continuous_defined(xmin, xmax) returns False when [xmin, xmax]
\* is not a subset of the support; otherwise it returns True exactly when
\* each boundary point b with xmin <= b <= xmax passes: at b = xmin the
\* right-hand limit equals the value, at b = xmax the left-hand limit does,
\* strictly between both do, the limits being those of the pieces that
\* cover the points just left and just right of b.
C16_ContinuousDefined ==
    op = "is_continuous_defined" =>
        LET p == collection[1]
            xmin == call.args[1]
            xmax == call.args[2]
        IN  xmin < xmax =>
            IF \E x \in xmin..xmax : ~Contains(p.support, x)
            THEN result = Returned(FALSE)
            ELSE result = Returned(\A b \in BoundaryPoints(p) :
                                      xmin <= b /\ b <= xmax
                                         => PassesAt(p, b, xmin, xmax))

----------------------------------------------------------------------------
(* Specification of the arithmetic: expressions in +, -, ==, *, / and **   *)
(* are evaluated on constructed functions; collection[1] is p and          *)
(* collection[2] is q                                                      *)

\* the largest power a function is raised to
MaxPower == 2

\* the numbers a function is multiplied with and divided by
Scalars == { -2, -1, 1, 2 }

InitArithmetic ==
    \/ InitOperands(2)
    \/ InitQuery

Computed(name, args, r) ==
    /\ op = "init"
    /\ op' = name
    /\ call' = [args |-> args, kwds |-> <<>>]
    /\ result' = r
    /\ UNCHANGED <<real_set_collection, partitions, function_pieces,
                   collection, union>>

\* p + q == q + p
PlusCommuted ==
    /\ Len(collection) = 2
    /\ LET p == collection[1]
           q == collection[2]
       IN  Computed("p + q == q + p", <<>>,
                    Equals(__add__(p, q), __add__(q, p)))

\* (p + q) - q == p
PlusMinus ==
    /\ Len(collection) = 2
    /\ LET p == collection[1]
           q == collection[2]
       IN  Computed("(p + q) - q == p", <<>>,
                    Equals(Minus(__add__(p, q), q), p))

\* p * c
TimesScalar ==
    /\ Len(collection) = 1
    /\ \E c \in Scalars :
          Computed("__mul__", <<c>>, __mul__(collection[1], Integer(c)))

\* p / c, for the c by which the coefficients of p can be divided
DividedByScalar ==
    /\ Len(collection) = 1
    /\ \E c \in Scalars :
          /\ \A k \in DOMAIN collection[1].func_list :
                Divides(c, collection[1].func_list[k])
          /\ Computed("__truediv__", <<c>>,
                      __truediv__(collection[1], Integer(c)))

\* p ^ n
Power ==
    /\ Len(collection) = 1
    /\ \E n \in 0..MaxPower :
          Computed("__pow__", <<n>>, __pow__(collection[1], n))

\* p == q
Compared ==
    /\ Len(collection) = 2
    /\ Computed("__eq__", <<>>, __eq__(collection[1], collection[2]))

\* p == q for PiecewiseFunction_polynomial
PolynomialCompared ==
    /\ Len(collection) = 2
    /\ Computed("polynomial__eq__", <<>>,
                polynomial__eq__(collection[1], collection[2]))

NextEquality ==
    \/ Compared
    \/ PolynomialCompared

\* Specification of the comparison of two functions
SpecEquality == InitArithmetic /\ [][NextEquality]_vars

NextArithmetic ==
    \/ PlusCommuted
    \/ PlusMinus
    \/ TimesScalar
    \/ DividedByScalar
    \/ Power

SpecArithmetic == InitArithmetic /\ [][NextArithmetic]_vars

\* p and q have the same variable and equal support
Comparable ==
    /\ collection[1].var = collection[2].var
    /\ collection[1].support = collection[2].support

\* C17: for any two functions p, q with the same variable and equal support,
\* p + q == q + p is True under __eq__, also when the two sums list their
\* pieces in different orders.
C17_AddCommutes ==
    op = "p + q == q + p" /\ Comparable => result = Returned(TRUE)

\* the sums of two functions that split the support differently were
\* compared, and they have several pieces
C17_Witness ==
    /\ op = "p + q == q + p"
    /\ Comparable
    /\ result = Returned(TRUE)
    /\ collection[1].domain_list # collection[2].domain_list
    /\ Len(__add__(collection[1], collection[2]).func_list) >= 2

\* C18: for any two functions p, q with the same variable and equal support,
\* (p + q) - q == p is True under __eq__, also when p and q split the support
\* into different pieces and when p + q coalesces or splits pieces.
C18_SubUndoesAdd ==
    op = "(p + q) - q == p" /\ Comparable => result = Returned(TRUE)

\* p and q split the support differently, and p + q has another number of
\* pieces than p
C18_Witness ==
    /\ op = "(p + q) - q == p"
    /\ Comparable
    /\ result = Returned(TRUE)
    /\ collection[1].domain_list # collection[2].domain_list
    /\ Len(__add__(collection[1], collection[2]).func_list)
          # Len(collection[1].func_list)

\* C19: for every function p, p * 1 returns a function equal to p: the same
\* support and the same value at every point, from the branch of __mul__
\* that multiplies the function of every piece by the number.
C19_TimesOne ==
    op = "__mul__" /\ call.args = <<1>> =>
        LET p == collection[1]
        IN  /\ result.kind = "PiecewiseFunction"
            /\ result.support = p.support
            /\ \A x \in PointsOf(p.support) :
                  SameAt(FuncOf(result, x), FuncOf(p, x), x)

\* v ^ n
RECURSIVE IntPow(_, _)
IntPow(v, n) == IF n = 0 THEN 1 ELSE v * IntPow(v, n - 1)

\* C20: for every p, number c # 0 and integer n >= 0, p / c and p ^ n have
\* the support of p, and at every x of it (p / c)(x) = p(x) / c and
\* (p ^ n)(x) = p(x) ^ n, also when distinct pieces of p become the same
\* function and are coalesced in the result.
C20_DivideAndPower ==
    op \in { "__truediv__", "__pow__" } =>
        LET p == collection[1]
            c == call.args[1]
        IN  /\ result.kind = "PiecewiseFunction"
            /\ result.support = p.support
            /\ \A x \in PointsOf(p.support) :
                  LET f == FuncOf(p, x)
                      g == FuncOf(result, x)
                  IN  /\ PieceAt(result, x) # 0
                      /\ op = "__truediv__" =>
                            /\ x % 2 = 1 => PolyMul(Const(c), g) = f
                            /\ c * PolyEval(g, x) = PolyEval(f, x)
                      /\ op = "__pow__" =>
                            /\ x % 2 = 1 => g = PolyPow(f, c)
                            /\ PolyEval(g, x) = IntPow(PolyEval(f, x), c)

\* a function of several pieces was raised to a power and the result has
\* fewer pieces, or was divided by a number other than 1 and -1
C20_Witness ==
    /\ op \in { "__truediv__", "__pow__" }
    /\ Len(collection[1].func_list) >= 2
    /\ result.kind = "PiecewiseFunction"
    /\ \/ /\ op = "__pow__"
          /\ Len(result.func_list) < Len(collection[1].func_list)
       \/ /\ op = "__truediv__"
          /\ call.args[1] \notin { 1, -1 }

\* p and q are the same function: the same points, and the same polynomial
\* on every interval and the same value at every single point
SameFunction(p, q) ==
    /\ PointsOf(p.support) = PointsOf(q.support)
    /\ \A x \in PointsOf(p.support) : SameAt(FuncOf(p, x), FuncOf(q, x), x)

\* C21: p == q (of either class) is True if and only if p and q have the
\* same variable, the same support and a difference that is zero everywhere,
\* however the support is split into pieces and whichever neighbour owns a
\* shared boundary point; when the supports differ the result is False, not
\* an error.
C21_Equality ==
    op \in { "__eq__", "polynomial__eq__" } =>
        LET p == collection[1]
            q == collection[2]
        IN  result = Returned(p.var = q.var /\ SameFunction(p, q))

\* two equal functions whose pieces differ were compared
C21_Witness ==
    /\ op \in { "__eq__", "polynomial__eq__" }
    /\ result = Returned(TRUE)
    /\ collection[1].domain_list # collection[2].domain_list
    /\ Len(collection[1].func_list) >= 2

\* C22: in every sequence of the queries is_continuous,
\* is_continuous_defined, which_pair and limits on a function (also on one
\* without pieces), only the first query runs _init_end_points, and no later
\* query changes _end_points or _end_points_list.
C22_BuiltOnce ==
    [][op # "init" => /\ ~call'._init_end_points
                      /\ collection' = collection]_vars

----------------------------------------------------------------------------
(* Specification of the operators as calls on shared operands: p and q are  *)
(* constructed from function_pieces, with or without their endpoint tables  *)
(* built, and two operator calls are made one after the other, in     *)
(* either order; call lists the calls made and result what they returned    *)

\* what the call of the operator name returns on the operands p and q
ReturnedBy(name, operands) ==
    LET p == operands[1]
        q == operands[2]
    IN  IF name = "__add__" THEN __add__(p, q)
        ELSE IF name = "__sub__" THEN __sub__(p, q)
        ELSE IF name = "__mul__" THEN __mul__(p, q)
        ELSE IF name = "__truediv__" THEN __truediv__(p, Integer(-1))
        ELSE IF name = "__pow__" THEN __pow__(p, 2)
        ELSE IF name = "__neg__" THEN __neg__(p)
        ELSE IF name = "derivative" THEN derivative(p)
        ELSE IF name = "piecewise_add_general"
        THEN piecewise_add_general(p, q, TRUE)
        ELSE IF name = "piecewise_sum_general"
        THEN piecewise_sum_general(operands, TRUE)
        ELSE IF name = "PiecewisePolynomial_add"
        THEN PiecewisePolynomial_add(operands, Some(TRUE))
        ELSE __eq__(p, q)

\* an operator that keeps the function it returns in self, as p += q would
OperateInPlace(operands, returned) ==
    [operands |-> IF returned.kind = "PiecewiseFunction"
                  THEN [operands EXCEPT ![1] = returned] ELSE operands,
     returned |-> returned]

\* an operator call: the operands after the call, none of whose attributes
\* the operators assign to, and what the call returned
Operate(operands, returned) ==
    [operands |-> operands, returned |-> returned]

InitShared ==
    /\ op = "init"
    /\ \E as \in Budgeted([a \in Assignments |-> NumRuns(a)], 2, MaxIntervals) :
          /\ { x \in Points : as[1][x] # 0 } = { x \in Points : as[2][x] # 0 }
          /\ function_pieces = [k \in 1..2 |-> PiecesOf(as[k])]
    /\ \E built \in BOOLEAN :
          collection = [k \in 1..2 |->
                           IF built
                           THEN _init_end_points(__init__(function_pieces[k]))
                           ELSE __init__(function_pieces[k])]
    /\ real_set_collection = <<>>
    /\ partitions = <<>>
    /\ union = None
    /\ call = <<>>
    /\ result = <<>>

Called(name, operands, returned) ==
    /\ Len(call) < 2
    /\ op' = name
    /\ call' = Append(call, name)
    /\ collection' = operands
    /\ result' = Append(result, returned)
    /\ UNCHANGED <<real_set_collection, partitions, function_pieces, union>>

\* the call made of Operate's outcome r
Operated(name, r) == Called(name, r.operands, r.returned)

\* p + q
SharedPlus ==
    Operated("__add__",
             Operate(collection, __add__(collection[1], collection[2])))

\* p - q
SharedMinus ==
    Operated("__sub__",
             Operate(collection, __sub__(collection[1], collection[2])))

\* p * q
SharedTimes ==
    Operated("__mul__",
             Operate(collection, __mul__(collection[1], collection[2])))

\* p / -1
SharedDivided ==
    Operated("__truediv__",
             Operate(collection, __truediv__(collection[1], Integer(-1))))

\* p ^ 2
SharedPower ==
    Operated("__pow__",
             Operate(collection, __pow__(collection[1], 2)))

\* -p
SharedNegated ==
    Operated("__neg__",
             Operate(collection, __neg__(collection[1])))

\* p.derivative()
SharedDerivative ==
    Operated("derivative",
             Operate(collection, derivative(collection[1])))

\* p.piecewise_add_general(q, union=True)
SharedAddGeneral ==
    Operated("piecewise_add_general",
             Operate(collection, piecewise_add_general(collection[1], collection[2], TRUE)))

\* piecewise_sum_general([p, q], union=True)
SharedSumGeneral ==
    Operated("piecewise_sum_general",
             Operate(collection, piecewise_sum_general(collection, TRUE)))

\* PiecewisePolynomial_add([p, q], union=True)
SharedPolynomialAdd ==
    Operated("PiecewisePolynomial_add",
             Operate(collection, PiecewisePolynomial_add(collection, Some(TRUE))))

\* p == q
SharedCompared ==
    Operated("__eq__",
             Operate(collection, __eq__(collection[1], collection[2])))

NextShared ==
    \/ SharedPlus
    \/ SharedMinus
    \/ SharedTimes
    \/ SharedDivided
    \/ SharedPower
    \/ SharedNegated
    \/ SharedDerivative
    \/ SharedAddGeneral
    \/ SharedSumGeneral
    \/ SharedPolynomialAdd
    \/ SharedCompared

SpecShared == InitShared /\ [][NextShared]_vars

\* the operands as the constructor made them
Fresh == [k \in 1..2 |-> __init__(function_pieces[k])]

\* f without its endpoint cache
Uncached(f) == [f EXCEPT !._end_points = None, !._end_points_list = None]

\* the operands are as constructed, and the last call made returned what it
\* returns when it is the only call made; a function returned is a new
\* object, with no endpoint cache
OperandsAsConstructed ==
    /\ \A k \in DOMAIN collection : Uncached(collection[k]) = Fresh[k]
    /\ \A j \in { Len(result) } \cap DOMAIN result :
          /\ result[j] = ReturnedBy(call[j], Fresh)
          /\ result[j].kind = "PiecewiseFunction" =>
                /\ result[j]._end_points = None
                /\ result[j]._end_points_list = None

Components(realset) == { realset[k] : k \in DOMAIN realset }

\* func is a constant
IsConstant(func) == Len(func) <= 1

C25_EndPointTable ==
    op \in { "which_pair", "limits", "is_continuous", "is_continuous_defined" } =>
        LET p == collection[1]
        IN  \A x \in BoundaryPoints(p) :
               /\ x \in DOMAIN p._end_points
               /\ CachedValue(p, x) = ValueAt(p, x)
               /\ CachedLeft(p, x) = LimitAt(p, x, -1)
               /\ CachedRight(p, x) = LimitAt(p, x, 1)

\* the emitted intervals k and l touch: no point lies between them
Touching(k, l) ==
    \E x \in Emitted(k) : \E y \in Emitted(l) : y = x + 1 \/ x = y + 1

\* C26: the emitted intervals are maximal: two emitted intervals that touch,
\* consecutively emitted ones in particular, have different membership
\* vectors; two emitted intervals share a membership vector only when a gap
\* of the union or another emitted interval lies between them.
C26_Maximal ==
    op = "finest_partitions" =>
        \A k, l \in DOMAIN partitions :
            k # l /\ Touching(k, l) => partitions[k].inds # partitions[l].inds

\* two emitted intervals touch, and two others share their membership vector
C26_Witness ==
    /\ op = "finest_partitions"
    /\ \E k, l \in DOMAIN partitions : k # l /\ Touching(k, l)
    /\ \E k, l \in DOMAIN partitions :
          k # l /\ partitions[k].inds = partitions[l].inds

\* C27: for every list of input pieces (Di, fi) with pairwise disjoint
\* domains the constructor returns a function p whose support is the union of
\* the Di and with p(x) = fi(x) for every i and every x in Di: splitting off
\* single points, merging pieces of one function and dropping empty domains
\* change no value.
C27_MeaningPreserved ==
    op = "__init__" /\ ~InputOverlaps =>
        /\ result.kind = "PiecewiseFunction"
        /\ PointsOf(result.support)
              = UNION { PointsOf(function_pieces[i][1]) :
                           i \in DOMAIN function_pieces }
        /\ \A i \in DOMAIN function_pieces :
              \A x \in PointsOf(function_pieces[i][1]) :
                 /\ PieceAt(result, x) # 0
                 /\ SameAt(FuncOf(result, x), function_pieces[i][2], x)
                 /\ Lookup(result, 1, x)
                       = Returned(PolyEval(function_pieces[i][2], x))

\* two pieces of one function that is not constant, one of them with a
\* single point, were merged
C27_Witness ==
    /\ op = "__init__"
    /\ ~InputOverlaps
    /\ Len(function_pieces) = 2
    /\ function_pieces[1][2] = function_pieces[2][2]
    /\ ~IsConstant(function_pieces[1][2])
    /\ function_pieces[1][1] # <<>>
    /\ function_pieces[2][1] # <<>>
    /\ \E n \in DOMAIN function_pieces :
          \E interval \in Components(function_pieces[n][1]) : is_point(interval)
    /\ result.kind = "PiecewiseFunction"
    /\ Len(result.func_list) = 2

\* the pairs PiecewisePolynomial_add (mul: PiecewisePolynomial_mul) hands to
\* the constructor
PolynomialPairs(mul) == PolynomialScan(collection, union, mul).result_pairs

\* the elementary intervals of the domains of p and q
PartitionOfTwo ==
    finest_partitions(collection[1].domain_list \o collection[2].domain_list)

\* C28: for every collection and union in {True, False},
\* PiecewisePolynomial_add hands the constructor the same (interval,
\* function) pairs in the same order as piecewise_sum_general, and for two
\* functions the same as piecewise_add_general; PiecewisePolynomial_mul for
\* two functions the same as piecewise_mul_general; so the functions they
\* return are the same.
C28_InlinedSweep ==
    /\ op = "PiecewisePolynomial_add" /\ union # None =>
          /\ PolynomialPairs(FALSE)
                = SumPairs(finest_partitions(AllDomains(collection)),
                           collection, union[1], realset_cut(collection))
          /\ result = piecewise_sum_general(collection, union[1])
          /\ Len(collection) = 2 =>
                /\ PolynomialPairs(FALSE)
                      = AddPairs(PartitionOfTwo, collection[1], collection[2],
                                 union[1])
                /\ result = piecewise_add_general(collection[1], collection[2],
                                                  union[1])
    /\ op = "PiecewisePolynomial_mul" /\ union # None /\ Len(collection) = 2 =>
          /\ PolynomialPairs(TRUE)
                = MulPairs(PartitionOfTwo, collection[1], collection[2],
                           union[1])
          /\ result = piecewise_mul_general(collection[1], collection[2],
                                            union[1])

\* two functions of different supports were added and multiplied with union
\* False, and some elementary interval was left out
C28_Witness ==
    /\ op \in { "PiecewisePolynomial_add", "PiecewisePolynomial_mul" }
    /\ union = Some(FALSE)
    /\ Len(collection) = 2
    /\ collection[1].support # collection[2].support
    /\ Len(PolynomialPairs(op = "PiecewisePolynomial_mul")) >= 2
    /\ Len(PolynomialPairs(op = "PiecewisePolynomial_mul")) < Len(PartitionOfTwo)

----------------------------------------------------------------------------
(* Specification of the loop of finest_partitions, one event per step:     *)
(* call is the position of the generator (the merged events and the index  *)
(* of the next one), result its local variables, partitions what it has    *)
(* yielded so far.                                                          *)

InitSweep ==
    /\ op = "init"
    /\ \E n \in 0..MaxSets :
          real_set_collection
              \in Budgeted([r \in RealSets |-> Len(r)], n, MaxIntervals)
    /\ partitions = <<>>
    /\ function_pieces = <<>>
    /\ collection = <<>>
    /\ union = None
    /\ call = [scan |-> merge([k \in DOMAIN real_set_collection |->
                                 _iterator(real_set_collection[k], k - 1)]),
               next |-> 1]
    /\ result = SweepInit(Len(real_set_collection))

SweepEvent ==
    /\ call.next <= Len(call.scan)
    /\ op' = "sweep"
    /\ result' = SweepStep(result, call.scan[call.next])
    /\ partitions' = partitions \o result'.yielded
    /\ call' = [call EXCEPT !.next = @ + 1]
    /\ UNCHANGED <<real_set_collection, function_pieces, collection, union>>

NextSweep == SweepEvent

SpecSweep == InitSweep /\ [][NextSweep]_vars

\* C29: after every event of the sweep each counter is 0 or 1, indicator_sum
\* is the sum of the counters, the previous boundary is None exactly when
\* indicator_sum is 0, and after the last event all counters are 0 and no
\* boundary is pending.
C29_SweepCounters ==
    op = "sweep" =>
        /\ \A i \in DOMAIN result.indicator : result.indicator[i] \in {0, 1}
        /\ result.indicator_sum = sum(result.indicator)
        /\ result.prev_event = None <=> result.indicator_sum = 0
        /\ call.next > Len(call.scan) =>
              /\ \A i \in DOMAIN result.indicator : result.indicator[i] = 0
              /\ result.prev_event = None

\* an event has been processed after which two inputs are open, after the
\* running sum had dropped to 0 between two intervals
C29_Witness ==
    /\ op = "sweep"
    /\ result.indicator_sum = 2
    /\ \E k \in 1..(call.next - 2) :
          sum([j \in 1..k |-> call.scan[j][3]]) = 0

\* (point, epsilon) of the event j of the merged events
Boundary(j) == <<call.scan[j][1], call.scan[j][2]>>

\* C30: the sweep consumes the merged events in non-decreasing (point,
\* epsilon) order, every emitted interval is non-empty and lies entirely
\* below every interval emitted after it, and nothing is emitted for an event
\* with the (point, epsilon) of the pending previous boundary.
C30_SweepOrder ==
    /\ [](op = "sweep" =>
            /\ \A j \in 1..(call.next - 2) :
                  ~TupleLess(Boundary(j + 1), Boundary(j))
            /\ \A k \in DOMAIN partitions : Emitted(k) # {}
            /\ \A k, l \in DOMAIN partitions :
                  k < l => \A y \in Emitted(k), z \in Emitted(l) : y < z)
    /\ [][(/\ call.next <= Len(call.scan)
           /\ result.prev_event # None
           /\ result.prev_event[1] = call.scan[call.next][1]
           /\ result.prev_event[2] = call.scan[call.next][2])
          => partitions' = partitions]_vars

\* after two intervals were emitted, an event with the (point, epsilon) of the
\* pending boundary was processed and nothing was yielded for it
C30_Witness ==
    /\ op = "sweep"
    /\ Len(partitions) >= 2
    /\ call.next >= 3
    /\ Boundary(call.next - 1) = Boundary(call.next - 2)
    /\ result.indicator_sum - call.scan[call.next - 1][3] # 0
    /\ result.yielded = <<>>

====
